---------------------------- MODULE Spec2Model ----------------------------
(***************************************************************************)
(* A model of the inference core of iterative_inference:                   *)
(*   lib/distributions/normal.py  (class Normal)                           *)
(*   lib/models/model.py          (class Model)                            *)
(*   cfg/config.py                (the shipped architecture dictionary)    *)
(*   util/plotting/plotter.py     (class Plotter)                          *)
(*                                                                         *)
(* Tensors are modelled with their shape and their elements (row-major).   *)
(* Real arithmetic is exact: a tensor carries a common denominator `den`,  *)
(* so that a mean is a division by the size of the averaged dimension.     *)
(* The transcendental elementwise formulas (the Gaussian log-density, the  *)
(* cdf, the reparameterised draw) are kept as symbolic terms over the      *)
(* elements they combine; where the Model sums them they are given a value *)
(* by an uninterpreted valuation picked in the initial state.              *)
(***************************************************************************)
EXTENDS Integers, Sequences, FiniteSets, TLC

VARIABLES
    mean,                 \* Normal.mean               (normal.py:20)
    log_var,              \* Normal.log_var            (normal.py:21)
    _sample,              \* Normal._sample            (normal.py:22)
    mean_reset_value,     \* Normal.mean_reset_value   (normal.py:18)
    log_var_reset_value,  \* Normal.log_var_reset_value(normal.py:19)
    model_config,         \* Model.model_config        (model.py:11)
    output_interval,      \* Model.output_interval     (model.py:12)
    latent_levels,        \* Model.latent_levels       (model.py:60)
    env,                  \* the current batch: sizes, data dimensions, valuation
    last,                 \* the last call: operation, arguments, outcome
    epoch,                \* Plotter.epoch             (plotter.py:25)
    handle_dict,          \* Plotter.handle_dict: window -> legend (plotter.py:24)
    data_config,          \* Plotter.data_config       (plotter.py:21)
    train_config,         \* Plotter.train_config      (plotter.py:19)
    vis,                  \* the points of the traces held by the visdom server
    plotted,              \* the Plotter's last call and the traces it updated
    steps_made            \* the number of step calls made

vars == <<mean, log_var, _sample, mean_reset_value, log_var_reset_value,
          model_config, output_interval, latent_levels, env, last,
          epoch, handle_dict, data_config, train_config, vis, plotted, steps_made>>

normal_vars == <<mean, log_var, _sample, mean_reset_value, log_var_reset_value>>
model_vars == <<model_config, output_interval, latent_levels, env>>
plotter_vars == <<epoch, handle_dict, data_config, train_config, vis, plotted,
                  steps_made>>

\* no Plotter is constructed
NoPlotter ==
    /\ epoch = 0
    /\ handle_dict = <<>>
    /\ data_config = <<>>
    /\ train_config = <<>>
    /\ vis = {}
    /\ plotted = <<>>
    /\ steps_made = 0

(***************************************************************************)
(* Bounds of the model.                                                    *)
(***************************************************************************)
MaxBatch == 2
MaxSamples == 2
MaxLevels == 2
MaxNoise == 2
MaxSeed == 1
MaxAnneal == 2

(***************************************************************************)
(* Tensors.                                                                *)
(***************************************************************************)
None == [kind |-> "none", shape |-> <<>>, data |-> <<>>, den |-> 1, msg |-> ""]

Error(m) == [kind |-> "error", shape |-> <<>>, data |-> <<>>, den |-> 1, msg |-> m]

RECURSIVE Prod(_)
Prod(s) == IF s = <<>> THEN 1 ELSE Head(s) * Prod(Tail(s))

Tensor(s, d) == [kind |-> "tensor", shape |-> s, data |-> d, den |-> 1, msg |-> ""]

IsTensor(t) == t.kind = "tensor"
IsError(t) == t.kind = "error"
IsNone(t) == t.kind = "none"

Rank(t) == Len(t.shape)

\* the multi-index (0-based) of flat position i (0-based) in a shape
RECURSIVE Unflatten(_, _)
Unflatten(i, s) ==
    IF s = <<>> THEN <<>>
    ELSE LET inner == Prod(Tail(s))
         IN  <<i \div inner>> \o Unflatten(i % inner, Tail(s))

\* the flat position (0-based) of a multi-index in a shape
RECURSIVE Flatten(_, _)
Flatten(idx, s) ==
    IF s = <<>> THEN 0
    ELSE Head(idx) * Prod(Tail(s)) + Flatten(Tail(idx), Tail(s))

At(t, idx) == t.data[Flatten(idx, t.shape) + 1]

RemoveAt(s, d) == SubSeq(s, 1, d) \o SubSeq(s, d + 2, Len(s))
InsertAt(s, d, x) == SubSeq(s, 1, d) \o <<x>> \o SubSeq(s, d + 1, Len(s))

RECURSIVE SumTo(_, _)
SumTo(f, n) == IF n = 0 THEN 0 ELSE f[n - 1] + SumTo(f, n - 1)

DimError(t, d) ==
    Error("IndexError: dimension out of range")

\* torch.Tensor.sum(dim): the dimension is removed (keepdim=False)
sum_dim(t, d) ==
    IF ~IsTensor(t) THEN t
    ELSE IF d >= Rank(t) THEN DimError(t, d)
    ELSE LET out == RemoveAt(t.shape, d)
             n == t.shape[d + 1]
         IN  [t EXCEPT !.shape = out,
                       !.data = [o \in 1..Prod(out) |->
                           SumTo([k \in 0..(n - 1) |->
                                    At(t, InsertAt(Unflatten(o - 1, out), d, k))], n)]]

\* torch.Tensor.mean(dim): the sum over the dimension divided by its size
mean_dim(t, d) ==
    IF ~IsTensor(t) THEN t
    ELSE IF d >= Rank(t) THEN DimError(t, d)
    ELSE LET s == sum_dim(t, d)
         IN  [s EXCEPT !.den = t.den * t.shape[d + 1]]

\* torch.Tensor.unsqueeze(dim)
unsqueeze(t, d) ==
    IF ~IsTensor(t) THEN t
    ELSE IF d > Rank(t) THEN DimError(t, d)
    ELSE [t EXCEPT !.shape = InsertAt(t.shape, d, 1)]

\* whether a tensor of shape s broadcasts to exactly the shape target
BroadcastsTo(s, target) ==
    /\ Len(s) <= Len(target)
    /\ \A i \in 1..Len(s) :
          LET j == Len(target) - Len(s) + i
          IN  s[i] = target[j] \/ s[i] = 1

\* the elements of t seen through the shape target
expand(t, target) ==
    IF ~IsTensor(t) THEN t
    ELSE IF ~BroadcastsTo(t.shape, target)
         THEN Error("RuntimeError: size mismatch")
    ELSE LET r == Len(t.shape)
             off == Len(target) - r
         IN  [t EXCEPT !.shape = target,
                       !.data = [o \in 1..Prod(target) |->
                           LET idx == Unflatten(o - 1, target)
                           IN  At(t, [i \in 1..r |->
                                   IF t.shape[i] = 1 THEN 0 ELSE idx[off + i]])]]

Max(a, b) == IF a >= b THEN a ELSE b

\* the shape two operands of an out-of-place elementwise operation broadcast to
BroadcastShape(a, b) ==
    LET n == Max(Len(a), Len(b))
        pa == [i \in 1..n |-> IF i <= n - Len(a) THEN 1 ELSE a[i - (n - Len(a))]]
        pb == [i \in 1..n |-> IF i <= n - Len(b) THEN 1 ELSE b[i - (n - Len(b))]]
    IN  [i \in 1..n |-> IF pa[i] = 1 THEN pb[i] ELSE pa[i]]

Broadcastable(a, b) ==
    LET s == BroadcastShape(a, b)
    IN  BroadcastsTo(a, s) /\ BroadcastsTo(b, s)

\* torch.Tensor.repeat(*reps): the tensor, padded with leading dimensions of
\* size 1 to the length of reps, tiled reps[i] times along dimension i
repeat(t, reps) ==
    IF ~IsTensor(t) THEN t
    ELSE IF Len(reps) < Rank(t)
         THEN Error("RuntimeError: repeat dims smaller than tensor dims")
    ELSE LET off == Len(reps) - Rank(t)
             padded == [i \in 1..Len(reps) |->
                          IF i <= off THEN 1 ELSE t.shape[i - off]]
             out == [i \in 1..Len(reps) |-> padded[i] * reps[i]]
         IN  [t EXCEPT !.shape = out,
                       !.data = [o \in 1..Prod(out) |->
                           LET idx == Unflatten(o - 1, out)
                           IN  t.data[Flatten([i \in 1..Len(reps) |-> idx[i] % padded[i]],
                                              padded) + 1]]]

\* t[:1]: the first row along dimension 0
first_row(t) ==
    IF ~IsTensor(t) THEN t
    ELSE IF Rank(t) = 0 THEN Error("IndexError: too many indices")
    ELSE LET out == <<IF t.shape[1] >= 1 THEN 1 ELSE 0>> \o Tail(t.shape)
         IN  [t EXCEPT !.shape = out, !.data = SubSeq(t.data, 1, Prod(out))]

\* the first of the arguments that is not a tensor (an error passes through)
FirstBad(ts) ==
    IF \E i \in 1..Len(ts) : ~IsTensor(ts[i])
    THEN ts[CHOOSE i \in 1..Len(ts) :
                /\ ~IsTensor(ts[i])
                /\ \A j \in 1..(i - 1) : IsTensor(ts[j])]
    ELSE None

SizeError == Error("RuntimeError: size mismatch")
NoneError == Error("AttributeError: 'NoneType' object has no attribute")
AssertError == Error("AssertionError: Mean or log variance are None.")
ShapeIndexError == Error("IndexError: tuple index out of range")

(***************************************************************************)
(* class Normal (lib/distributions/normal.py).                             *)
(*                                                                         *)
(* The elementwise formulas are symbolic: an element of a draw is          *)
(* <<"draw", eps, m, lv>> for eps * exp(0.5 * lv) + m, an element of a     *)
(* log-density is <<"logpdf", v, m, lv>>, of a cdf <<"cdf", v, m, lv>>, of *)
(* an interval's log-mass <<"logmass", cdf_hi, cdf_lo>>.                   *)
(***************************************************************************)

\* the parameters as sample, log_prob and cdf unsqueeze them along the sample
\* dimension: x.unsqueeze(1).repeat(1, n_samples, 1[, 1, 1])
along_samples(x, n_samples, rank) ==
    repeat(unsqueeze(x, 1),
           [i \in 1..(rank + 1) |-> IF i = 2 THEN n_samples ELSE 1])

\* the elementwise combination of three tensors of one shape
zip3(tag, a, b, c) ==
    IF ~IsTensor(a) THEN a
    ELSE IF ~IsTensor(b) THEN b
    ELSE IF ~IsTensor(c) THEN c
    ELSE Tensor(a.shape,
                [i \in 1..Len(a.data) |-> <<tag, a.data[i], b.data[i], c.data[i]>>])

\* the elementwise combination of two tensors of one shape
zip2(tag, a, b) ==
    IF ~IsTensor(a) THEN a
    ELSE IF ~IsTensor(b) THEN b
    ELSE Tensor(a.shape, [i \in 1..Len(a.data) |-> <<tag, a.data[i], b.data[i]>>])

\* normal.py:38-39: rand_normal.mul_(std).add_(mean), in place on rand_normal,
\* so that std broadcasts to the shape of mean
draw_from(mean2, std, eps) ==
    IF ~IsTensor(mean2) THEN mean2
    ELSE zip3("draw", Tensor(mean2.shape, [i \in 1..Len(mean2.data) |-> eps]),
              mean2, expand(std, mean2.shape))

\* normal.py:33-39, one draw with the noise eps
draw(m, lv, n_samples, eps) ==
    IF IsNone(lv) THEN NoneError                       \* self.log_var.mul(0.5)
    ELSE IF IsNone(m) THEN NoneError                   \* self.mean.size()
    ELSE IF Rank(m) = 2
    THEN draw_from(along_samples(m, n_samples, 2), along_samples(lv, n_samples, 2), eps)
    ELSE draw_from(m, lv, eps)

\* normal.py:39-40: a successful draw is cached and returned
sample_drawn(d, cache) ==
    IF IsError(d) THEN [ret |-> d, cache |-> cache, drew |-> FALSE]
    ELSE [ret |-> d, cache |-> d, drew |-> TRUE]

\* a faulty sample: it also draws anew when the cache holds another number of
\* samples than asked for
sample_call_per_n_samples(m, lv, cache, n_samples, resample, eps) ==
    IF IsNone(cache) \/ resample \/ cache.shape[2] # n_samples
    THEN sample_drawn(draw(m, lv, n_samples, eps), cache)
    ELSE [ret |-> cache, cache |-> cache, drew |-> FALSE]

\* Normal.sample: the value returned (or the error raised) and the cache after
sample_call(m, lv, cache, n_samples, resample, eps) ==
    IF IsNone(cache) \/ resample
    THEN sample_drawn(draw(m, lv, n_samples, eps), cache)
    ELSE [ret |-> cache, cache |-> cache, drew |-> FALSE]

\* normal.py:86 on operands that broadcast to the shape s
cdf_terms(value, mean2, std, s) ==
    zip3("cdf", expand(value, s), expand(mean2, s), expand(std, s))

\* normal.py:86: (value - mean) / (sqrt(2) * std + 1e-5), out of place
cdf_from(value, mean2, std) ==
    IF ~IsTensor(mean2) THEN mean2
    ELSE IF ~IsTensor(std) THEN std
    ELSE IF ~Broadcastable(value.shape, mean2.shape) THEN SizeError
    ELSE IF ~Broadcastable(BroadcastShape(value.shape, mean2.shape), std.shape)
    THEN SizeError
    ELSE cdf_terms(value, mean2, std,
                   BroadcastShape(BroadcastShape(value.shape, mean2.shape), std.shape))

\* Normal.cdf
cdf_call(m, lv, value) ==
    IF IsNone(value) THEN NoneError                    \* value.data
    ELSE IF Rank(value) < 2 THEN ShapeIndexError       \* value.data.shape[1]
    ELSE IF IsNone(lv) THEN NoneError                  \* self.log_var.mul(0.5)
    ELSE IF IsNone(m) THEN NoneError                   \* mean.size()
    ELSE IF Rank(m) = 2
    THEN cdf_from(value, along_samples(m, value.shape[2], 2),
                  along_samples(lv, value.shape[2], 2))
    ELSE cdf_from(value, m, lv)

\* normal.py:52: log(cdf(hi) - cdf(lo) + 1e-6)
log_mass_from(chi, clo) ==
    IF ~IsTensor(chi) THEN chi
    ELSE IF ~IsTensor(clo) THEN clo
    ELSE IF ~Broadcastable(chi.shape, clo.shape) THEN SizeError
    ELSE zip2("logmass", expand(chi, BroadcastShape(chi.shape, clo.shape)),
              expand(clo, BroadcastShape(chi.shape, clo.shape)))

\* Normal.log_prob, the interval branch (normal.py:50-52)
log_mass(m, lv, lo, hi) == log_mass_from(cdf_call(m, lv, hi), cdf_call(m, lv, lo))

\* normal.py:70 on the unsqueezed parameters: value.sub(mean) is out of place,
\* .div_(log_var.exp().add(1e-5)) is in place on the difference, and
\* log_var.add(log(2 pi)).add_(...) is in place on log_var's copy
log_density_from(value, mean2, lv2) ==
    IF ~IsTensor(mean2) THEN mean2
    ELSE IF ~IsTensor(lv2) THEN lv2
    ELSE IF ~Broadcastable(value.shape, mean2.shape) THEN SizeError
    ELSE IF ~BroadcastsTo(lv2.shape, BroadcastShape(value.shape, mean2.shape))
    THEN SizeError
    ELSE IF ~BroadcastsTo(BroadcastShape(value.shape, mean2.shape), lv2.shape)
    THEN SizeError
    ELSE zip3("logpdf", expand(value, lv2.shape), expand(mean2, lv2.shape), lv2)

\* Normal.log_prob, the density branch after `value` is known (normal.py:57-70)
log_density(m, lv, value) ==
    IF IsNone(m) \/ IsNone(lv) THEN AssertError
    ELSE IF Rank(value) < 2 THEN ShapeIndexError       \* value.data.shape[1]
    ELSE IF Rank(m) \in {2, 4}
    THEN log_density_from(value, along_samples(m, value.shape[2], Rank(m)),
                          along_samples(lv, value.shape[2], Rank(m)))
    ELSE log_density_from(value, m, lv)

\* a faulty log_prob: the density is computed in place on the value, which is
\* the cached sample
log_prob_of_sample_in_place(m, lv, sc) ==
    IF IsError(sc.ret) THEN sc
    ELSE [ret |-> log_density(m, lv, sc.ret),
          cache |-> IF IsTensor(log_density(m, lv, sc.ret))
                    THEN log_density(m, lv, sc.ret) ELSE sc.cache,
          drew |-> sc.drew]

\* normal.py:55-56: value = self.sample(), then the density at it
log_prob_of_sample(m, lv, sc) ==
    IF IsError(sc.ret) THEN sc
    ELSE [ret |-> log_density(m, lv, sc.ret), cache |-> sc.cache, drew |-> sc.drew]

\* Normal.log_prob: value is a tensor, None, or the pair [lo, hi]
log_prob_call(m, lv, cache, value, eps) ==
    IF value.kind = "tuple"
    THEN [ret |-> log_mass(m, lv, value.lo, value.hi), cache |-> cache, drew |-> FALSE]
    ELSE IF IsNone(value)
    THEN log_prob_of_sample(m, lv, sample_call(m, lv, cache, 1, FALSE, eps))
    ELSE [ret |-> log_density(m, lv, value), cache |-> cache, drew |-> FALSE]

\* normal.py:112-115: the batch rows and the sample dimension of a parameter
re_init_rows(v0, batch_size, sample_dim) ==
    IF Rank(v0) = 0 THEN ShapeIndexError               \* mean.shape[0]
    ELSE IF v0.shape[1] # batch_size
    THEN IF sample_dim THEN unsqueeze(repeat(first_row(v0), <<batch_size, 1>>), 1)
         ELSE repeat(first_row(v0), <<batch_size, 1>>)
    ELSE IF sample_dim THEN unsqueeze(v0, 1) ELSE v0

\* Normal.re_init_mean / Normal.re_init_log_var: the new parameter
re_init_value(value, reset_value, batch_size, sample_dim) ==
    IF ~IsNone(value) THEN re_init_rows(value, batch_size, sample_dim)
    ELSE re_init_rows(unsqueeze(reset_value, 0), batch_size, sample_dim)

(***************************************************************************)
(* Exact arithmetic on tensors of rationals data[i] / den.                 *)
(***************************************************************************)
Scalar(x) == Tensor(<<>>, <<x>>)

\* a + sign * b, out of place, with broadcasting
add(a, b, sign) ==
    IF ~IsTensor(a) THEN a
    ELSE IF ~IsTensor(b) THEN b
    ELSE IF ~Broadcastable(a.shape, b.shape) THEN SizeError
    ELSE LET s == BroadcastShape(a.shape, b.shape)
             ea == expand(a, s)
             eb == expand(b, s)
         IN  [kind |-> "tensor", shape |-> s, msg |-> "",
              den |-> a.den * b.den,
              data |-> [i \in 1..Prod(s) |->
                          ea.data[i] * b.den + sign * eb.data[i] * a.den]]

\* w * t for the rational w = <<numerator, denominator>>
scale(w, t) ==
    IF ~IsTensor(t) THEN t
    ELSE [t EXCEPT !.den = t.den * w[2],
                   !.data = [i \in 1..Len(t.data) |-> w[1] * t.data[i]]]

\* equality of two tensors of rationals
Same(a, b) ==
    /\ a.kind = b.kind
    /\ a.msg = b.msg
    /\ a.shape = b.shape
    /\ \A i \in 1..Len(a.data) : a.data[i] * b.den = b.data[i] * a.den

SameList(a, b) ==
    /\ Len(a) = Len(b)
    /\ \A i \in 1..Len(a) : Same(a[i], b[i])

\* Python's sum(list): 0 + list[0] + list[1] + ...
RECURSIVE py_sum(_)
py_sum(l) ==
    IF l = <<>> THEN Scalar(0)
    ELSE add(py_sum(SubSeq(l, 1, Len(l) - 1)), l[Len(l)], 1)

(***************************************************************************)
(* The value of a symbolic term: an uninterpreted function of the elements *)
(* it combines, one of a family indexed by k.                              *)
(***************************************************************************)
Mix(k, a, b, c) == (((a + 1) * (b + 2) + (c + 3) * (a + k)) % 7) - 3

TermValue(k, x) ==
    IF x[1] = "logmass"
    THEN Mix(k, Mix(k, x[2][2], x[2][3], x[2][4]), Mix(k, x[3][2], x[3][3], x[3][4]), 1)
    ELSE Mix(k, x[2], x[3], x[4])

evaluate(k, t) ==
    IF ~IsTensor(t) THEN t
    ELSE [t EXCEPT !.data = [i \in 1..Len(t.data) |-> TermValue(k, t.data[i])]]

(***************************************************************************)
(* class Model (lib/models/model.py).                                      *)
(***************************************************************************)

\* latent_level.latent.kl_divergence(analytical): the closed form or the
\* sampled estimate, each a tensor [batch, sample, d1, ..., dk]
kl_divergence(latent_level, analytical) ==
    IF analytical THEN latent_level.kl_analytical ELSE latent_level.kl_sampled

\* a faulty choice of level: the analytic KL at the bottom level
is_analytical_at_bottom(level_ind, n_levels) == level_ind = 0

\* model.py:61
is_analytical(level_ind, n_levels) == level_ind = n_levels - 1

\* model.py:63-64: for dim in range(2, n): level_kl = level_kl.sum(dim)
RECURSIVE sum_data_dims(_, _, _)
sum_data_dims(level_kl, dim, n) ==
    IF dim >= n THEN level_kl
    ELSE sum_data_dims(sum_dim(level_kl, dim), dim + 1, n)

\* model.py:63-65: one level's KL, per batch element
level_kl_reduce(level_kl) ==
    mean_dim(sum_data_dims(level_kl, 2, Rank(level_kl)), 1)

\* the position of the first of the values that is not a tensor
FirstBadIndex(ts) ==
    CHOOSE i \in 1..Len(ts) :
        ~IsTensor(ts[i]) /\ \A j \in 1..(i - 1) : IsTensor(ts[j])

\* model.py:67-69: the list returned
kl_averaged(out, flags) == [err |-> FirstBad(out), kl |-> out, calls |-> flags]

\* model.py:66-68: the loop ends at the first level that raises
kl_collect(vals, flags, averaged) ==
    IF \E i \in 1..Len(vals) : ~IsTensor(vals[i])
    THEN [err |-> FirstBad(vals), kl |-> <<>>,
          calls |-> SubSeq(flags, 1, FirstBadIndex(vals))]
    ELSE IF averaged
    THEN kl_averaged([i \in 1..Len(vals) |-> mean_dim(vals[i], 0)], flags)
    ELSE kl_averaged(vals, flags)

\* Model.kl_divergences: the list returned (or the error raised) and the
\* kl_divergence(analytical) calls made, in order
kl_divergences_call(levels, averaged) ==
    kl_collect([i \in 1..Len(levels) |->
                   level_kl_reduce(kl_divergence(levels[i],
                                                 is_analytical(i - 1, Len(levels))))],
               [i \in 1..Len(levels) |-> is_analytical(i - 1, Len(levels))],
               averaged)

\* model.py:88-91: while len(shape) > 2: log_prob = log_prob.sum(last_dim)
RECURSIVE sum_spatial_dims(_)
sum_spatial_dims(log_prob) ==
    IF ~IsTensor(log_prob) \/ Rank(log_prob) <= 2 THEN log_prob
    ELSE sum_spatial_dims(sum_dim(log_prob, Rank(log_prob) - 1))

\* model.py:80-81: the observation with its sample dimension
add_sample_dim(observation) ==
    IF Rank(observation) \in {2, 4} THEN unsqueeze(observation, 1) ELSE observation

\* a faulty pair: the ends of the interval exchanged
output_value_exchanged(observation, interval) ==
    IF ~IsNone(interval)
    THEN [kind |-> "tuple", lo |-> add(observation, interval, 1), hi |-> observation]
    ELSE observation

\* model.py:83-84: the value handed to the output distribution
output_value(observation, interval) ==
    IF ~IsNone(interval)
    THEN [kind |-> "tuple", lo |-> observation, hi |-> add(observation, interval, 1)]
    ELSE observation

\* model.py:88-98
cll_reduce(log_prob, averaged) ==
    IF averaged THEN mean_dim(mean_dim(sum_spatial_dims(log_prob), 1), 0)
    ELSE mean_dim(sum_spatial_dims(log_prob), 1)

\* Model.conditional_log_likelihoods (output_dist is the Normal of the state)
conditional_log_likelihoods_call(m, lv, cache, interval, k, observation, averaged) ==
    cll_reduce(
        evaluate(k, log_prob_call(m, lv, cache,
                                  output_value(add_sample_dim(observation), interval),
                                  1).ret),
        averaged)

\* model.py:113-116
elbo_mean(elbo, averaged) == IF averaged THEN mean_dim(elbo, 0) ELSE elbo

\* a faulty elbo: the KL term is not weighted
elbo_from_unweighted(cond_log_like, kls, averaged, anneal_weight) ==
    IF ~IsTensor(cond_log_like) THEN cond_log_like
    ELSE IF IsError(kls.err) THEN kls.err
    ELSE elbo_mean(add(cond_log_like, py_sum(kls.kl), -1), averaged)

\* model.py:112
elbo_from(cond_log_like, kls, averaged, anneal_weight) ==
    IF ~IsTensor(cond_log_like) THEN cond_log_like
    ELSE IF IsError(kls.err) THEN kls.err
    ELSE elbo_mean(add(cond_log_like, scale(anneal_weight, py_sum(kls.kl)), -1),
                   averaged)

\* Model.elbo
elbo_call(m, lv, cache, interval, k, levels, observation, averaged, anneal_weight) ==
    elbo_from(conditional_log_likelihoods_call(m, lv, cache, interval, k,
                                               observation, FALSE),
              kl_divergences_call(levels, FALSE), averaged, anneal_weight)

LossError(e) == [err |-> e, elbo |-> None, cond_log_like |-> None, kl |-> <<>>]

\* model.py:130 / 132: the tuple returned
losses_tuple(elbo, cond_log_like, kl) ==
    IF ~IsTensor(elbo) THEN LossError(elbo)
    ELSE IF ~IsTensor(cond_log_like) THEN LossError(cond_log_like)
    ELSE IF IsError(FirstBad(kl)) THEN LossError(FirstBad(kl))
    ELSE [err |-> None, elbo |-> elbo, cond_log_like |-> cond_log_like, kl |-> kl]

\* a faulty losses: the KL list is left per batch element
losses_averaged_but_kl(elbo, cond_log_like, kl, averaged) ==
    IF ~IsTensor(elbo) THEN LossError(elbo)
    ELSE IF averaged
    THEN losses_tuple(mean_dim(elbo, 0), mean_dim(cond_log_like, 0), kl)
    ELSE losses_tuple(elbo, cond_log_like, kl)

\* model.py:129-132
losses_averaged(elbo, cond_log_like, kl, averaged) ==
    IF ~IsTensor(elbo) THEN LossError(elbo)
    ELSE IF averaged
    THEN losses_tuple(mean_dim(elbo, 0), mean_dim(cond_log_like, 0),
                      [i \in 1..Len(kl) |-> mean_dim(kl[i], 0)])
    ELSE losses_tuple(elbo, cond_log_like, kl)

\* model.py:128
losses_from(cond_log_like, kls, averaged, anneal_weight) ==
    IF ~IsTensor(cond_log_like) THEN LossError(cond_log_like)
    ELSE IF IsError(kls.err) THEN LossError(kls.err)
    ELSE losses_averaged(add(cond_log_like, scale(anneal_weight, py_sum(kls.kl)), -1),
                         cond_log_like, kls.kl, averaged)

\* Model.losses: (elbo, cond_log_like, kl), or the error raised
losses_call(m, lv, cache, interval, k, levels, observation, averaged, anneal_weight) ==
    losses_from(conditional_log_likelihoods_call(m, lv, cache, interval, k,
                                                 observation, FALSE),
                kl_divergences_call(levels, FALSE), averaged, anneal_weight)

(***************************************************************************)
(* The record of the last call.                                            *)
(***************************************************************************)
NoCall ==
    [op |-> "none", err |-> "", ret |-> None, drew |-> FALSE, cached |-> FALSE,
     terms |-> None,
     value |-> None, n_samples |-> 0, resample |-> FALSE,
     mean_value |-> None, log_var_value |-> None, batch_size |-> 0,
     sample_dim |-> FALSE,
     observation |-> None, has_sample |-> FALSE, averaged |-> FALSE,
     anneal_weight |-> <<0, 1>>, kl |-> <<>>, cond_log_like |-> None,
     calls |-> <<>>]

\* cached: whether the Normal held a cached sample when the call was made
Call(op) == [NoCall EXCEPT !.op = op, !.cached = ~IsNone(_sample)]

Outcome(c, ret) ==
    IF IsError(ret) THEN [c EXCEPT !.err = ret.msg] ELSE [c EXCEPT !.ret = ret]

(***************************************************************************)
(* Architecture configurations (cfg/config.py) and the batch under         *)
(* evaluation.                                                             *)
(***************************************************************************)
NoConfig ==
    [model_form |-> "none", n_latent |-> <<>>, n_layers_enc |-> <<>>,
     n_layers_dec |-> <<>>]

\* the per-level lists of the shipped dictionary (config.py:22, 37, 42, 43)
arch ==
    [model_form |-> "dense", n_latent |-> <<2>>, n_layers_enc |-> <<2, 0>>,
     n_layers_dec |-> <<2, 1>>]

\* a configuration of n levels whose per-level lists agree
Consistent(n, form) ==
    [model_form |-> form, n_latent |-> [i \in 1..n |-> IF i = 1 THEN 2 ELSE 1],
     n_layers_enc |-> [i \in 1..n |-> 2], n_layers_dec |-> [i \in 1..n |-> 2]]

Configs == {arch} \cup { Consistent(n, f) : n \in 0..MaxLevels, f \in {"dense", "conv"} }

ListsAgree(cfg) ==
    /\ Len(cfg.n_latent) = Len(cfg.n_layers_enc)
    /\ Len(cfg.n_latent) = Len(cfg.n_layers_dec)

NoEnv == [k |-> 0, batch_size |-> 0, n_samples |-> 0, data_dims |-> <<>>]

\* the data dimensions of the observations: vectors and matrices for a dense
\* model, images [channel, height, width] for a convolutional one
DataDims(form) ==
    IF form = "conv" THEN { <<1, 1, 2>> } ELSE { <<2>>, <<2, 2>> }

(***************************************************************************)
(* The inputs of the Normal's operations.                                  *)
(***************************************************************************)
Iota(s, from) == Tensor(s, [i \in 1..Prod(s) |-> from + i - 1])

\* values given to re_init: one, two and three rows of two features, two rows
\* of three features, a convolutional value, one number per batch element
ReInitValues ==
    { None, Iota(<<1, 2>>, 1), Iota(<<2, 2>>, 1), Iota(<<3, 2>>, 1),
      Iota(<<2, 3>>, 1), Iota(<<2, 1, 1, 2>>, 1), Iota(<<2>>, 1) }

\* the pairs given to re_init: the same value for both, a default beside a
\* value, and two values whose feature dimensions disagree
ReInitPairs ==
    { <<v, v>> : v \in ReInitValues }
      \cup { <<None, Iota(<<2, 2>>, 1)>>, <<Iota(<<2, 2>>, 1), Iota(<<2, 3>>, 1)>> }

\* values given to log_prob and cdf: [batch, sample, n], a convolutional
\* [batch, sample, c, h, w], and a value with no sample dimension
Values ==
    { Iota(<<b, MaxSamples, 2>>, 0) : b \in 1..MaxBatch }
      \cup { Iota(<<2, 2, 1, 1, 2>>, 0), Iota(<<2>>, 0) }

\* values given to re_init_mean and re_init_log_var called on their own
SetterValues == { None, Iota(<<2, 2>>, 1), Iota(<<2, 3>>, 1) }

Interval(v) == [kind |-> "tuple", lo |-> v, hi |-> add(v, Scalar(1), 1)]

(***************************************************************************)
(* The Normal's operations.                                                *)
(***************************************************************************)
\* Normal(n_variables=2): the constructor's state
n_variables == 2

NormalInit ==
    /\ mean = None
    /\ log_var = None
    /\ _sample = None
    /\ mean_reset_value = Tensor(<<n_variables>>, [i \in 1..n_variables |-> 0])
    /\ log_var_reset_value = Tensor(<<n_variables>>, [i \in 1..n_variables |-> 0])

sample_return(r, n_samples, resample) ==
    /\ _sample' = r.cache
    /\ last' = Outcome([Call("sample") EXCEPT !.n_samples = n_samples,
                                              !.resample = resample,
                                              !.drew = r.drew], r.ret)
    /\ UNCHANGED <<mean, log_var, mean_reset_value, log_var_reset_value>>

sample(n_samples, resample, eps) ==
    sample_return(sample_call(mean, log_var, _sample, n_samples, resample, eps),
                  n_samples, resample)

log_prob_return(r, value) ==
    /\ _sample' = r.cache
    /\ last' = Outcome([Call("log_prob") EXCEPT !.value = value, !.drew = r.drew],
                       r.ret)
    /\ UNCHANGED <<mean, log_var, mean_reset_value, log_var_reset_value>>

log_prob(value, eps) ==
    log_prob_return(log_prob_call(mean, log_var, _sample, value, eps), value)

cdf(value) ==
    /\ last' = Outcome([Call("cdf") EXCEPT !.value = value],
                       cdf_call(mean, log_var, value))
    /\ UNCHANGED normal_vars

\* normal.py:116-117: self.mean = ...; self._sample = None (nothing is
\* assigned when the lines before raise)
re_init_mean_set(v, c) ==
    /\ mean' = IF IsError(v) THEN mean ELSE v
    /\ _sample' = IF IsError(v) THEN _sample ELSE None
    /\ last' = IF IsError(v) THEN [c EXCEPT !.err = v.msg] ELSE c
    /\ UNCHANGED <<log_var, mean_reset_value, log_var_reset_value>>

re_init_mean(value, batch_size, sample_dim) ==
    re_init_mean_set(re_init_value(value, mean_reset_value, batch_size, sample_dim),
                     [Call("re_init_mean") EXCEPT !.mean_value = value,
                                                  !.batch_size = batch_size,
                                                  !.sample_dim = sample_dim])

\* a faulty re_init_log_var: the cached sample survives
re_init_log_var_set_keeps_sample(v, c) ==
    /\ log_var' = IF IsError(v) THEN log_var ELSE v
    /\ UNCHANGED _sample
    /\ last' = IF IsError(v) THEN [c EXCEPT !.err = v.msg] ELSE c
    /\ UNCHANGED <<mean, mean_reset_value, log_var_reset_value>>

\* normal.py:133-134
re_init_log_var_set(v, c) ==
    /\ log_var' = IF IsError(v) THEN log_var ELSE v
    /\ _sample' = IF IsError(v) THEN _sample ELSE None
    /\ last' = IF IsError(v) THEN [c EXCEPT !.err = v.msg] ELSE c
    /\ UNCHANGED <<mean, mean_reset_value, log_var_reset_value>>

re_init_log_var(value, batch_size, sample_dim) ==
    re_init_log_var_set(
        re_init_value(value, log_var_reset_value, batch_size, sample_dim),
        [Call("re_init_log_var") EXCEPT !.log_var_value = value,
                                        !.batch_size = batch_size,
                                        !.sample_dim = sample_dim])

\* normal.py:99-100: re_init_mean, then re_init_log_var unless the first raised
re_init_set(m, lv, c) ==
    /\ mean' = IF IsError(m) THEN mean ELSE m
    /\ log_var' = IF IsError(m) \/ IsError(lv) THEN log_var ELSE lv
    /\ _sample' = IF IsError(m) THEN _sample ELSE None
    /\ last' = IF IsError(m) THEN [c EXCEPT !.err = m.msg]
               ELSE IF IsError(lv) THEN [c EXCEPT !.err = lv.msg]
               ELSE c
    /\ UNCHANGED <<mean_reset_value, log_var_reset_value>>

re_init(mean_value, log_var_value, batch_size, sample_dim) ==
    re_init_set(re_init_value(mean_value, mean_reset_value, batch_size, sample_dim),
                re_init_value(log_var_value, log_var_reset_value, batch_size, sample_dim),
                [Call("re_init") EXCEPT !.mean_value = mean_value,
                                        !.log_var_value = log_var_value,
                                        !.batch_size = batch_size,
                                        !.sample_dim = sample_dim])

\* a Normal on its own: no Model is constructed
Init ==
    /\ NormalInit
    /\ model_config = NoConfig
    /\ output_interval = None
    /\ latent_levels = <<>>
    /\ env = NoEnv
    /\ last = NoCall
    /\ NoPlotter

\* the caller takes the outcome of the call before it makes the next one
\* (calls are synchronous and made from a single thread)
caller_continues ==
    /\ last.op # "none"
    /\ last' = NoCall
    /\ UNCHANGED <<normal_vars, model_vars, plotter_vars>>

Idle == last.op = "none"

Next ==
    \/ \E n \in 1..MaxSamples, r \in BOOLEAN, eps \in 1..MaxNoise :
          Idle /\ sample(n, r, eps) /\ UNCHANGED <<model_vars, plotter_vars>>
    \/ \E v \in Values : Idle /\ log_prob(v, 1) /\ UNCHANGED <<model_vars, plotter_vars>>
    \/ \E eps \in 1..MaxNoise : Idle /\ log_prob(None, eps) /\ UNCHANGED <<model_vars, plotter_vars>>
    \/ \E v \in Values : Idle /\ log_prob(Interval(v), 1) /\ UNCHANGED <<model_vars, plotter_vars>>
    \/ \E v \in Values : Idle /\ cdf(v) /\ UNCHANGED <<model_vars, plotter_vars>>
    \/ \E v \in SetterValues, b \in 1..MaxBatch, sd \in BOOLEAN :
          Idle /\ re_init_mean(v, b, sd) /\ UNCHANGED <<model_vars, plotter_vars>>
    \/ \E v \in SetterValues, b \in 1..MaxBatch, sd \in BOOLEAN :
          Idle /\ re_init_log_var(v, b, sd) /\ UNCHANGED <<model_vars, plotter_vars>>
    \/ \E p \in ReInitPairs, b \in 1..MaxBatch, sd \in BOOLEAN :
          Idle /\ re_init(p[1], p[2], b, sd) /\ UNCHANGED <<model_vars, plotter_vars>>
    \/ caller_continues

Spec == Init /\ [][Next]_vars

(***************************************************************************)
(* The Model's operations.                                                 *)
(***************************************************************************)
ModelInit ==
    /\ NormalInit
    /\ model_config = NoConfig
    /\ output_interval = None
    /\ latent_levels = <<>>
    /\ env = NoEnv
    /\ last = NoCall
    /\ NoPlotter

\* Model.__init__
Model_init(cfg) ==
    /\ model_config = NoConfig
    /\ model_config' = cfg
    /\ output_interval' = None
    /\ last' = Call("__init__")
    /\ UNCHANGED <<normal_vars, latent_levels, env>>

\* the KL tensor of a level: [batch, sample, n_latent] in a dense model,
\* [batch, sample, n_latent, 1, 2] in a convolutional one
KlShape(cfg, level, batch_size, n_samples) ==
    IF cfg.model_form = "conv"
    THEN <<batch_size, n_samples, cfg.n_latent[level], 1, 2>>
    ELSE <<batch_size, n_samples, cfg.n_latent[level]>>

KlTensor(shape, k, level, analytical) ==
    Tensor(shape, [i \in 1..Prod(shape) |->
                      (k * i + level + (IF analytical THEN 2 ELSE 0)) % 5])

\* the concrete model's construction, inference and generation for one batch:
\* one latent level per entry of n_latent, the output distribution's
\* parameters, the discretisation interval of the output
run_batch(batch_size, n_samples, data_dims, k, interval) ==
    /\ model_config # NoConfig
    /\ env = NoEnv
    /\ env' = [k |-> k, batch_size |-> batch_size, n_samples |-> n_samples,
               data_dims |-> data_dims]
    /\ latent_levels' =
          [i \in 1..Len(model_config.n_latent) |->
              [kl_analytical |->
                   KlTensor(KlShape(model_config, i, batch_size, n_samples), k, i, TRUE),
               kl_sampled |->
                   KlTensor(KlShape(model_config, i, batch_size, n_samples), k, i, FALSE)]]
    /\ mean' = Tensor(<<batch_size>> \o data_dims,
                      [i \in 1..Prod(<<batch_size>> \o data_dims) |-> (i + k) % 2])
    /\ log_var' = Tensor(<<batch_size>> \o data_dims,
                         [i \in 1..Prod(<<batch_size>> \o data_dims) |-> i % 3])
    /\ _sample' = None
    /\ output_interval' = interval
    /\ last' = Call("run_batch")
    /\ UNCHANGED <<model_config, mean_reset_value, log_var_reset_value>>

\* an observation of the batch, [batch, *data_dims] or [batch, sample, *data_dims]
Observation(has_sample) ==
    Iota(<<env.batch_size>> \o (IF has_sample THEN <<env.n_samples>> ELSE <<>>)
           \o env.data_dims, 0)

kl_divergences_return(r, averaged) ==
    /\ last' = [Call("kl_divergences") EXCEPT !.averaged = averaged,
                                              !.kl = r.kl, !.calls = r.calls,
                                              !.err = r.err.msg]
    /\ UNCHANGED <<normal_vars, model_vars>>

kl_divergences(averaged) ==
    /\ env # NoEnv
    /\ kl_divergences_return(kl_divergences_call(latent_levels, averaged), averaged)

conditional_log_likelihoods(has_sample, averaged) ==
    /\ env # NoEnv
    /\ last' = Outcome(
          [Call("conditional_log_likelihoods") EXCEPT
              !.observation = Observation(has_sample),
              !.has_sample = has_sample,
              !.averaged = averaged,
              !.value = output_value(add_sample_dim(Observation(has_sample)),
                                     output_interval),
              !.terms = log_prob_call(mean, log_var, _sample,
                                      output_value(add_sample_dim(Observation(has_sample)),
                                                   output_interval), 1).ret],
          conditional_log_likelihoods_call(mean, log_var, _sample, output_interval,
                                           env.k, Observation(has_sample), averaged))
    /\ UNCHANGED <<normal_vars, model_vars>>

elbo(has_sample, averaged, anneal_weight) ==
    /\ env # NoEnv
    /\ last' = Outcome(
          [Call("elbo") EXCEPT !.observation = Observation(has_sample),
                               !.has_sample = has_sample,
                               !.averaged = averaged,
                               !.anneal_weight = anneal_weight],
          elbo_call(mean, log_var, _sample, output_interval, env.k, latent_levels,
                    Observation(has_sample), averaged, anneal_weight))
    /\ UNCHANGED <<normal_vars, model_vars>>

losses_return(r, has_sample, averaged, anneal_weight) ==
    /\ last' = [Call("losses") EXCEPT !.observation = Observation(has_sample),
                                      !.has_sample = has_sample,
                                      !.averaged = averaged,
                                      !.anneal_weight = anneal_weight,
                                      !.ret = r.elbo,
                                      !.cond_log_like = r.cond_log_like,
                                      !.kl = r.kl,
                                      !.err = r.err.msg]
    /\ UNCHANGED <<normal_vars, model_vars>>

losses(has_sample, averaged, anneal_weight) ==
    /\ env # NoEnv
    /\ losses_return(losses_call(mean, log_var, _sample, output_interval, env.k,
                                 latent_levels, Observation(has_sample), averaged,
                                 anneal_weight),
                     has_sample, averaged, anneal_weight)

\* anneal weights 0, 1/MaxAnneal, ..., 1
AnnealWeights == { <<n, MaxAnneal>> : n \in 0..MaxAnneal }

ModelNext ==
    \/ \E cfg \in Configs : Idle /\ Model_init(cfg) /\ UNCHANGED plotter_vars
    \/ \E b \in 1..MaxBatch, n \in 1..MaxSamples,
          dd \in DataDims(model_config.model_form), k \in 1..MaxSeed,
          interval \in {None, Scalar(1)} :
          Idle /\ run_batch(b, n, dd, k, interval) /\ UNCHANGED plotter_vars
    \/ \E av \in BOOLEAN : Idle /\ kl_divergences(av) /\ UNCHANGED plotter_vars
    \/ \E hs \in BOOLEAN, av \in BOOLEAN :
          Idle /\ conditional_log_likelihoods(hs, av) /\ UNCHANGED plotter_vars
    \/ \E hs \in BOOLEAN, av \in BOOLEAN, w \in AnnealWeights :
          Idle /\ elbo(hs, av, w) /\ UNCHANGED plotter_vars
    \/ \E hs \in BOOLEAN, av \in BOOLEAN, w \in AnnealWeights :
          Idle /\ losses(hs, av, w) /\ UNCHANGED plotter_vars
    \/ caller_continues

ModelSpec == ModelInit /\ [][ModelNext]_vars
(***************************************************************************)
(* class Plotter (util/plotting/plotter.py).                               *)
(***************************************************************************)
MaxSequenceLength == 2
MaxIterations == 2
MaxEpoch == 3

\* Python's range(a, b) as a sequence
range(a, b) == [i \in 1..(b - a) |-> a + i - 1]

\* plotter.py:60, 243: split + ', Step ' + str(step_num)
step_name(split, step_num) == split \o ", Step " \o ToString(step_num)

\* plotter.py:91, 266: split + ', Iteration ' + str(it_num)
iteration_name(split, it_num) == split \o ", Iteration " \o ToString(it_num)

\* for split in ['Train', 'Val']: for n in numbers: legend.append(name(split, n))
Splits == <<"Train", "Val">>

\* plotter.py:57-60
step_legend(n_steps) ==
    [k \in 1..(2 * n_steps) |->
        step_name(Splits[((k - 1) \div n_steps) + 1],
                  range(1, n_steps + 1)[((k - 1) % n_steps) + 1])]

\* plotter.py:88-91 (from_it = 0) and 152-155 (from_it = 1)
it_legend(from_it, iterations) ==
    [k \in 1..(2 * (iterations + 1 - from_it)) |->
        iteration_name(Splits[((k - 1) \div (iterations + 1 - from_it)) + 1],
                       range(from_it, iterations + 1)
                           [((k - 1) % (iterations + 1 - from_it)) + 1])]

\* Plotter._init_plots: the legend of each window created
_init_plots(n_steps, iterations) ==
    [fe |-> <<"Train", "Val">>,
     cll |-> <<"Train", "Val">>,
     kl |-> <<"Train", "Val">>,
     fe_step |-> step_legend(n_steps),
     cll_step |-> step_legend(n_steps),
     kl_step |-> step_legend(n_steps),
     post_mean |-> it_legend(0, iterations),
     post_log_var |-> it_legend(0, iterations),
     prior_mean |-> it_legend(0, iterations),
     prior_log_var |-> it_legend(0, iterations),
     mean_grad |-> it_legend(0, iterations),
     log_var_grad |-> it_legend(0, iterations),
     param_grad |-> <<"Inf.", "Gen.">>,
     inf_improvement |-> it_legend(1, iterations),
     lr |-> <<"Inf.", "Gen.">>,
     out_log_var |-> it_legend(0, iterations)]

\* update_trace(vis, y, x, win=self.handle_dict[win], name=name): the point
\* added to the trace `name` of the window
update_trace(x, win, name) == [win |-> win, name |-> name, x |-> x]

\* the updates of a loop whose body updates the windows wins, in order
loop_updates(numbers, wins, x, split, is_step) ==
    [k \in 1..(Len(numbers) * Len(wins)) |->
        update_trace(x, wins[((k - 1) % Len(wins)) + 1],
                     IF is_step
                     THEN step_name(split, numbers[((k - 1) \div Len(wins)) + 1])
                     ELSE iteration_name(split, numbers[((k - 1) \div Len(wins)) + 1]))]

\* Plotter._plot_metrics
_plot_metrics(train_val, x, n_steps) ==
    <<update_trace(x, "fe", train_val), update_trace(x, "cll", train_val),
      update_trace(x, "kl", train_val)>>
    \o loop_updates(range(1, n_steps + 1), <<"fe_step", "cll_step", "kl_step">>,
                    x, train_val, TRUE)

\* Plotter._plot_latent_params
_plot_latent_params(train_val, x, iterations) ==
    loop_updates(range(0, iterations + 1),
                 <<"post_mean", "post_log_var", "prior_mean", "prior_log_var">>,
                 x, train_val, FALSE)

\* Plotter._plot_inf_grads
_plot_inf_grads(train_val, x, iterations) ==
    loop_updates(range(0, iterations + 1), <<"mean_grad", "log_var_grad">>,
                 x, train_val, FALSE)

\* Plotter._plot_param_grads
_plot_param_grads(x) ==
    <<update_trace(x, "param_grad", "Inf."), update_trace(x, "param_grad", "Gen.")>>

\* a faulty loop: the improvement of iteration 0 over itself is plotted too
_plot_inf_improvement_from_zero(train_val, x, iterations) ==
    loop_updates(range(0, iterations + 1), <<"inf_improvement">>, x, train_val, FALSE)

\* Plotter._plot_inf_improvement
_plot_inf_improvement(train_val, x, iterations) ==
    loop_updates(range(1, iterations + 1), <<"inf_improvement">>, x, train_val, FALSE)

\* Plotter._plot_misc
_plot_misc(has_lr, train_val, x, iterations) ==
    loop_updates(range(0, iterations + 1), <<"out_log_var">>, x, train_val, FALSE)
    \o (IF has_lr
        THEN <<update_trace(x, "lr", "Inf."), update_trace(x, "lr", "Gen.")>>
        ELSE <<>>)

\* Plotter.plot: the updates it makes, in order
plot_updates(has_lr, train_val, x, n_steps, iterations) ==
    _plot_metrics(train_val, x, n_steps)
    \o _plot_latent_params(train_val, x, iterations)
    \o _plot_inf_grads(train_val, x, iterations)
    \o (IF train_val = "Train" THEN _plot_param_grads(x) ELSE <<>>)
    \o _plot_inf_improvement(train_val, x, iterations)
    \o _plot_misc(has_lr, train_val, x, iterations)

\* Plotter.__init__ for a data_config and a train_config
PlotterInit ==
    /\ NormalInit
    /\ model_config = NoConfig
    /\ output_interval = None
    /\ latent_levels = <<>>
    /\ env = NoEnv
    /\ last = NoCall
    /\ data_config \in [sequence_length : 1..MaxSequenceLength]
    /\ train_config \in [inference_iterations : 0..MaxIterations]
    /\ handle_dict = _init_plots(data_config.sequence_length - 1,
                                 train_config.inference_iterations)
    /\ epoch = 1
    /\ vis = {}
    /\ plotted = [op |-> "__init__", train_val |-> "", updates |-> <<>>]
    /\ steps_made = 0

plot_made(updates, train_val) ==
    /\ vis' = vis \cup {updates[i] : i \in 1..Len(updates)}
    /\ plotted' = [op |-> "plot", train_val |-> train_val, updates |-> updates]
    /\ UNCHANGED <<epoch, handle_dict, data_config, train_config, steps_made>>

\* Plotter.plot(out_dict, train_val); has_lr: 'lr' in out_dict
plot(has_lr, train_val) ==
    plot_made(plot_updates(has_lr, train_val, epoch, data_config.sequence_length - 1,
                           train_config.inference_iterations),
              train_val)

\* a faulty step: the counter moves by two
step_by_two ==
    /\ epoch < MaxEpoch
    /\ epoch' = epoch + 2
    /\ steps_made' = steps_made + 1
    /\ plotted' = [op |-> "step", train_val |-> "", updates |-> <<>>]
    /\ UNCHANGED <<handle_dict, data_config, train_config, vis>>

\* Plotter.step
step ==
    /\ epoch < MaxEpoch
    /\ epoch' = epoch + 1
    /\ steps_made' = steps_made + 1
    /\ plotted' = [op |-> "step", train_val |-> "", updates |-> <<>>]
    /\ UNCHANGED <<handle_dict, data_config, train_config, vis>>

\* Plotter.save: the server writes the environment to disk
save ==
    /\ plotted' = [op |-> "save", train_val |-> "", updates |-> <<>>]
    /\ UNCHANGED <<epoch, handle_dict, data_config, train_config, vis, steps_made>>

PlotterNext ==
    \/ \E has_lr \in BOOLEAN, train_val \in {"Train", "Val"} :
          plot(has_lr, train_val) /\ UNCHANGED <<normal_vars, model_vars, last>>
    \/ step /\ UNCHANGED <<normal_vars, model_vars, last>>
    \/ save /\ UNCHANGED <<normal_vars, model_vars, last>>

PlotterSpec == PlotterInit /\ [][PlotterNext]_vars

(***************************************************************************)
(* Properties of Model (checked under ModelSpec).                          *)
(***************************************************************************)

\* what the last call returned or raised, against an expected tensor or error
SameOutcome(c, expected) ==
    IF IsError(expected) THEN c.err = expected.msg
    ELSE c.err = "" /\ Same(c.ret, expected)

\* cond_log_like - w * sum(kl) of the given components (their errors first)
Combined(cond_log_like, kls, w) ==
    IF ~IsTensor(cond_log_like) THEN cond_log_like
    ELSE IF IsError(kls.err) THEN kls.err
    ELSE add(cond_log_like, scale(w, py_sum(kls.kl)), -1)

CllNow(averaged) ==
    conditional_log_likelihoods_call(mean, log_var, _sample, output_interval, env.k,
                                     last.observation, averaged)

\* C1: in any state, elbo(observation, averaged, anneal_weight) is
\* conditional_log_likelihoods(observation, averaged) minus anneal_weight times
\* the sum of kl_divergences(averaged), evaluated in that state (and raises
\* what they raise).
C1_ElboIdentity ==
    last.op = "elbo" =>
        SameOutcome(last, Combined(CllNow(last.averaged),
                                   kl_divergences_call(latent_levels, last.averaged),
                                   last.anneal_weight))

\* an averaged elbo of a two-level model over a batch of two, at a weight
\* strictly between 0 and 1
C1_Witness ==
    /\ last.op = "elbo"
    /\ last.err = ""
    /\ last.averaged
    /\ Len(latent_levels) = 2
    /\ env.batch_size = 2
    /\ last.anneal_weight[1] = 1
    /\ last.anneal_weight[2] > 1
    /\ last.ret.data[1] # 0

\* the sum over every data dimension d1..dk, the mean over the sample
\* dimension and, if averaged, over the batch
RECURSIVE SumFrom(_, _)
SumFrom(t, d) ==
    IF ~IsTensor(t) \/ Rank(t) <= d THEN t ELSE SumFrom(sum_dim(t, Rank(t) - 1), d)

TotalKl(level_kl, averaged) ==
    IF averaged THEN mean_dim(mean_dim(SumFrom(level_kl, 2), 1), 0)
    ELSE mean_dim(SumFrom(level_kl, 2), 1)

\* C4: kl_divergences asks level i for the analytic KL exactly when i is the
\* last level and for the sampled KL otherwise, and a call that returns gives
\* one value per level, value i being level i's KL of that kind.
C4_AnalyticOnlyAtTop ==
    last.op = "kl_divergences" =>
        /\ \A i \in 1..Len(last.calls) : last.calls[i] = (i = Len(latent_levels))
        /\ last.err = "" =>
              /\ Len(last.calls) = Len(latent_levels)
              /\ Len(last.kl) = Len(latent_levels)
              /\ \A i \in 1..Len(latent_levels) :
                    Same(last.kl[i],
                         TotalKl(kl_divergence(latent_levels[i], i = Len(latent_levels)),
                                 last.averaged))

\* a two-level model: sampled KL below, analytic KL on top
C4_Witness ==
    /\ last.op = "kl_divergences"
    /\ last.err = ""
    /\ Len(last.kl) = 2
    /\ last.calls = <<FALSE, TRUE>>
    /\ ~Same(last.kl[1], last.kl[2])

\* C5: for level KL tensors [batch, sample, d1, ..., dk] with any k >= 1,
\* kl_divergences does not fail and yields, per level, the sum over d1..dk
\* averaged over the samples: shape [batch], or a scalar when averaged.
C5_KlSumsEveryDataDim ==
    last.op = "kl_divergences" =>
        /\ last.err = ""
        /\ Len(last.kl) = Len(latent_levels)
        /\ \A i \in 1..Len(latent_levels) :
              /\ last.kl[i].shape = IF last.averaged THEN <<>> ELSE <<env.batch_size>>
              /\ Same(last.kl[i],
                      TotalKl(kl_divergence(latent_levels[i], i = Len(latent_levels)),
                              last.averaged))

\* the observation as it was handed to the output distribution
PassedObservation ==
    IF last.value.kind = "tuple" THEN last.value.lo ELSE last.value

\* the log-probability summed over every data dimension and averaged over the
\* sample dimension, when dimension 1 of log_prob is the sample dimension
\* (has_sample_dim) and when log_prob has none
TotalLogProb(logp, has_sample_dim, averaged) ==
    IF averaged
    THEN mean_dim(IF has_sample_dim THEN mean_dim(SumFrom(logp, 2), 1)
                  ELSE SumFrom(logp, 1), 0)
    ELSE IF has_sample_dim THEN mean_dim(SumFrom(logp, 2), 1)
    ELSE SumFrom(logp, 1)

\* C6: conditional_log_likelihoods gives the observation a sample dimension
\* exactly when it has none, whatever the number of data dimensions, and
\* returns the log-probability summed over the data dimensions and averaged
\* over the samples: shape [batch], or a scalar when averaged.
C6_SampleDimWhenAbsent ==
    last.op = "conditional_log_likelihoods" =>
        /\ Rank(PassedObservation) =
              Rank(last.observation) + (IF last.has_sample THEN 0 ELSE 1)
        /\ last.err = ""
        /\ last.ret.shape = IF last.averaged THEN <<>> ELSE <<env.batch_size>>
        /\ Same(last.ret,
                TotalLogProb(evaluate(env.k,
                                      log_prob_call(mean, log_var, _sample,
                                                    last.value, 1).ret),
                             TRUE, last.averaged))

\* C7: losses(observation, averaged, anneal_weight) returns the triple of
\* elbo(observation, averaged, anneal_weight),
\* conditional_log_likelihoods(observation, averaged) and
\* kl_divergences(averaged), the KL list in level order (and raises what elbo
\* raises).
C7_LossesAreTheThree ==
    last.op = "losses" =>
        /\ SameOutcome(last, elbo_call(mean, log_var, _sample, output_interval, env.k,
                                       latent_levels, last.observation, last.averaged,
                                       last.anneal_weight))
        /\ last.err = "" =>
              /\ Same(last.cond_log_like, CllNow(last.averaged))
              /\ SameList(last.kl, kl_divergences_call(latent_levels, last.averaged).kl)
              /\ Len(last.kl) = Len(latent_levels)

\* averaged losses of a two-level model over a batch of two
C7_Witness ==
    /\ last.op = "losses"
    /\ last.err = ""
    /\ last.averaged
    /\ Len(last.kl) = 2
    /\ env.batch_size = 2
    /\ last.anneal_weight[1] = 1
    /\ ~Same(last.kl[1], last.kl[2])
    /\ ~Same(last.ret, last.cond_log_like)

\* C10: no Model is constructed from a configuration whose per-level lists
\* n_latent, n_layers_enc and n_layers_dec differ in length: the constructor
\* rejects it.
C10_MismatchedListsRejected ==
    /\ model_config # NoConfig => ListsAgree(model_config)
    /\ last.op = "__init__" => (last.err = "" <=> model_config # NoConfig)

(***************************************************************************)
(* Properties of Normal (checked under Spec).                              *)
(***************************************************************************)

\* the step is a call of one of the named operations
Calls(ops) == last.op = "none" /\ last'.op \in ops

\* C2: while a sample is cached, sample(n_samples, resample=False) returns
\* that very sample for any n_samples and keeps it; log_prob(value) and
\* cdf(value) leave the cache alone; a sample call replaces the cache only
\* when it was empty or resample was set, and then returns what it cached.
C2_CachedSampleReturned ==
    [][/\ (Calls({"sample"}) /\ ~IsNone(_sample) /\ ~last'.resample) =>
              /\ last'.err = ""
              /\ last'.ret = _sample
              /\ _sample' = _sample
       /\ (Calls({"log_prob", "cdf"}) /\ ~IsNone(last'.value)) => _sample' = _sample
       /\ (Calls({"sample"}) /\ last'.drew) =>
              /\ IsNone(_sample) \/ last'.resample
              /\ IsTensor(_sample')
              /\ last'.ret = _sample'
       /\ (Calls({"sample"}) /\ ~last'.drew) => _sample' = _sample]_vars

\* sample(2) answered from a cache that holds a single sample per batch element
C2_Witness ==
    /\ last.op = "sample"
    /\ last.cached
    /\ ~last.resample
    /\ ~last.drew
    /\ last.err = ""
    /\ last.n_samples = 2
    /\ IsTensor(_sample)
    /\ _sample.shape[2] = 1
    /\ last.ret = _sample

ResetOps == {"re_init", "re_init_mean", "re_init_log_var"}

\* the elements of a tensor
Elements(t) == {t.data[i] : i \in 1..Len(t.data)}

\* C3: a reset that returns, or that changes mean or log_var, leaves no cached
\* sample; the sample() that follows is freshly drawn from the mean and
\* log_var then in place and has the mean's batch size.
C3_ResetClearsSample ==
    [][/\ (Calls(ResetOps) /\ last'.err = "") => IsNone(_sample')
       /\ (mean' # mean \/ log_var' # log_var) => IsNone(_sample')
       /\ (Calls({"sample"}) /\ IsNone(_sample) /\ last'.err = "") =>
              /\ last'.drew
              /\ last'.ret.shape[1] = mean.shape[1]
              /\ {x[3] : x \in Elements(last'.ret)} = Elements(mean)
              /\ {x[4] : x \in Elements(last'.ret)} = Elements(log_var)]_vars

\* a re_init to a batch of one that found a cached sample and removed it
C3_Witness ==
    /\ last.op = "re_init"
    /\ last.err = ""
    /\ last.cached
    /\ last.batch_size = 1
    /\ IsNone(_sample)
    /\ mean.shape[1] = 1

\* C8: while mean or log_var is None, sample(), log_prob(value), log_prob()
\* and cdf(value) fail with the error 'Mean or log variance are None.' and
\* change nothing.
C8_UnsetFailsPrecondition ==
    [][(Calls({"sample", "log_prob", "cdf"}) /\ (IsNone(mean) \/ IsNone(log_var))) =>
           /\ last'.err = AssertError.msg
           /\ UNCHANGED normal_vars]_vars

\* C9: no state holds a mean and a log_var of different shapes: setting them
\* with disagreeing batch or feature dimensions fails.
C9_ShapesAgree ==
    /\ (IsTensor(mean) /\ IsTensor(log_var)) => mean.shape = log_var.shape
    /\ (/\ last.op = "re_init"
        /\ IsTensor(last.mean_value)
        /\ IsTensor(last.log_var_value)
        /\ last.mean_value.shape # last.log_var_value.shape) => last.err # ""

\* the value a parameter is reset from: the one given, or the reset parameter
\* as a single row
GivenOrReset(value, reset_value) ==
    IF IsNone(value) THEN unsqueeze(reset_value, 0) ELSE value

\* param holds v0 brought to batch_size rows: as given when it has that many,
\* its first batch_size rows when it has more, its single row on every row when
\* it has one; with sample_dim, a dimension of size 1 at position 1
RowsBroughtTo(param, v0, batch_size, sample_dim) ==
    /\ IsTensor(param)
    /\ param.shape = <<batch_size>> \o (IF sample_dim THEN <<1>> ELSE <<>>)
                        \o Tail(v0.shape)
    /\ v0.shape[1] >= batch_size =>
          param.data = SubSeq(v0.data, 1, batch_size * Prod(Tail(v0.shape)))
    /\ v0.shape[1] = 1 =>
          \A i \in 1..Len(param.data) :
              param.data[i] = v0.data[((i - 1) % Len(v0.data)) + 1]

\* C11: re_init(mean_value, log_var_value, batch_size=B, sample_dim) returns
\* and leaves mean and log_var with B rows, for a value of any leading size
\* and rank: stored as given when it has B rows, its first B rows when it has
\* more, broadcast when it has fewer, the reset parameter repeated B times
\* when it is missing; with sample_dim a size-1 axis is inserted at position 1.
C11_ReInitBringsToBatch ==
    last.op = "re_init" =>
        /\ last.err = ""
        /\ RowsBroughtTo(mean, GivenOrReset(last.mean_value, mean_reset_value),
                         last.batch_size, last.sample_dim)
        /\ RowsBroughtTo(log_var, GivenOrReset(last.log_var_value, log_var_reset_value),
                         last.batch_size, last.sample_dim)

\* drawn is a draw of n_samples per batch element from parameters of shape
\* param.shape without a sample dimension: [batch, n_samples, ...], element
\* [b, s, ...] drawn from parameter element [b, ...]
DrawnAcrossSamples(drawn, param, n_samples, field) ==
    /\ drawn.shape = <<param.shape[1], n_samples>> \o Tail(param.shape)
    /\ \A i \in 1..Len(drawn.data) :
          drawn.data[i][field] =
              At(param, <<Unflatten(i - 1, drawn.shape)[1]>>
                           \o SubSeq(Unflatten(i - 1, drawn.shape), 3, Len(drawn.shape)))

\* C12: a fresh draw sample(n_samples) from parameters of shape [batch] or
\* [batch, n_vars] has a sample dimension of size n_samples at axis 1, the
\* parameters being broadcast across it; from parameters of shape
\* [batch, sample, n_vars] it has the parameters' shape.
C12_SampleDimInserted ==
    (last.op = "sample" /\ last.drew /\ last.err = "" /\ Rank(mean) \in 1..3) =>
        IF Rank(mean) = 3 THEN last.ret.shape = mean.shape
        ELSE /\ DrawnAcrossSamples(last.ret, mean, last.n_samples, 3)
             /\ DrawnAcrossSamples(last.ret, log_var, last.n_samples, 4)

\* C13: with output_interval set, conditional_log_likelihoods hands the pair
\* (observation, observation + output_interval) to the output distribution,
\* whose log_prob returns log(cdf(hi) - cdf(lo) + 1e-6) of that pair; with
\* output_interval None it hands over the observation itself and log_prob
\* returns the density at it.
C13_IntervalOrDensity ==
    last.op = "conditional_log_likelihoods" =>
        IF IsNone(output_interval)
        THEN /\ IsTensor(last.value)
             /\ last.value.data = last.observation.data
             /\ IsTensor(last.terms) =>
                   \A i \in 1..Len(last.terms.data) :
                       /\ last.terms.data[i][1] = "logpdf"
                       /\ last.terms.data[i][2] \in Elements(last.observation)
        ELSE /\ last.value.kind = "tuple"
             /\ last.value.lo.shape = last.value.hi.shape
             /\ last.value.lo.data = last.observation.data
             /\ Same(last.value.hi, add(last.value.lo, output_interval, 1))
             /\ IsTensor(last.terms) =>
                   \A i \in 1..Len(last.terms.data) :
                       /\ last.terms.data[i][1] = "logmass"
                       /\ last.terms.data[i][2][1] = "cdf"
                       /\ last.terms.data[i][3][1] = "cdf"
                       /\ last.terms.data[i][3][2] \in Elements(last.observation)
                       /\ last.terms.data[i][2][2] =
                              last.terms.data[i][3][2] + output_interval.data[1]
                       /\ last.terms.data[i][2][3] = last.terms.data[i][3][3]
                       /\ last.terms.data[i][2][4] = last.terms.data[i][3][4]

\* the log-mass of an interval, for a batch of two with two samples each
C13_Witness ==
    /\ last.op = "conditional_log_likelihoods"
    /\ last.err = ""
    /\ ~IsNone(output_interval)
    /\ last.value.kind = "tuple"
    /\ IsTensor(last.terms)
    /\ last.terms.shape = <<2, 2, 2>>
    /\ last.terms.data[1][1] = "logmass"
    /\ last.has_sample

\* the value at which the last log_prob or cdf was evaluated (the lower end
\* of an interval)
EvaluatedAt == IF last.value.kind = "tuple" THEN last.value.lo ELSE last.value

\* the means that enter an element of a log_prob or cdf result
MeansIn(x) == IF x[1] = "logmass" THEN {x[2][3], x[3][3]} ELSE {x[3]}

\* the multi-index without its sample position
BatchRowIndex(idx) == <<idx[1]>> \o SubSeq(idx, 3, Len(idx))

\* C14: with mean and log_var of rank 2 or rank 4 and a value of shape
\* [batch, sample, ...] over them, cdf and both branches of log_prob return a
\* result of the value's shape in which element [b, s, ...] is computed from
\* the parameters' element [b, ...].
C14_CdfBroadcastsLikeDensity ==
    (/\ last.op \in {"cdf", "log_prob"}
     /\ IsTensor(mean)
     /\ Rank(mean) \in {2, 4}
     /\ log_var.shape = mean.shape
     /\ IsTensor(EvaluatedAt)
     /\ Rank(EvaluatedAt) = Rank(mean) + 1
     /\ BatchRowIndex(EvaluatedAt.shape) = mean.shape) =>
        /\ last.err = ""
        /\ last.ret.shape = EvaluatedAt.shape
        /\ \A i \in 1..Len(last.ret.data) :
              MeansIn(last.ret.data[i]) =
                  {At(mean, BatchRowIndex(Unflatten(i - 1, last.ret.shape)))}

Declared(win) == {handle_dict[win][i] : i \in 1..Len(handle_dict[win])}

\* the names of the traces the last plot call updated in a window
Updated(win) ==
    {plotted.updates[i].name :
        i \in {j \in 1..Len(plotted.updates) : plotted.updates[j].win = win}}

StepWindows == {"fe_step", "cll_step", "kl_step"}
IterationWindows ==
    {"post_mean", "post_log_var", "prior_mean", "prior_log_var",
     "mean_grad", "log_var_grad", "out_log_var"}

\* C16: every trace a plot call for 'Train' or 'Val' updates is declared in
\* the legend of its window; the call updates the split's total traces, its
\* step traces for steps 1..sequence_length-1, its iteration traces for
\* iterations 0..inference_iterations, its improvement traces for iterations
\* 1..inference_iterations, 'Inf.' and 'Gen.' for the learning rates, and
\* 'Inf.' and 'Gen.' for the parameter gradients only when it is 'Train'.
C16_UpdatedTracesAreDeclared ==
    /\ \A p \in vis : p.name \in Declared(p.win)
    /\ plotted.op = "plot" =>
          /\ \A i \in 1..Len(plotted.updates) :
                plotted.updates[i].name \in Declared(plotted.updates[i].win)
          /\ \A w \in {"fe", "cll", "kl"} : Updated(w) = {plotted.train_val}
          /\ \A w \in StepWindows :
                Updated(w) = {step_name(plotted.train_val, n) :
                                 n \in 1..(data_config.sequence_length - 1)}
          /\ \A w \in IterationWindows :
                Updated(w) = {iteration_name(plotted.train_val, n) :
                                 n \in 0..train_config.inference_iterations}
          /\ Updated("inf_improvement") =
                {iteration_name(plotted.train_val, n) :
                    n \in 1..train_config.inference_iterations}
          /\ Updated("lr") \in {{}, {"Inf.", "Gen."}}
          /\ Updated("param_grad") =
                IF plotted.train_val = "Train" THEN {"Inf.", "Gen."} ELSE {}

\* a 'Train' plot of sequences of two steps and two inference iterations
C16_Witness ==
    /\ plotted.op = "plot"
    /\ plotted.train_val = "Train"
    /\ data_config.sequence_length = 2
    /\ train_config.inference_iterations = 2
    /\ "Train, Step 1" \in Updated("kl_step")
    /\ "Train, Iteration 2" \in Updated("inf_improvement")
    /\ "Gen." \in Updated("param_grad")
    /\ \E p \in vis : p.name = "Val, Iteration 0" /\ p.win = "out_log_var"

\* C17: the epoch is 1 plus the number of step calls made; only step changes
\* it, by exactly 1; every point written by one plot call has the epoch of
\* that call as its x coordinate.
C17_EpochCountsSteps ==
    [][/\ epoch = 1 + steps_made
       /\ epoch' = 1 + steps_made'
       /\ epoch' # epoch => (plotted'.op = "step" /\ epoch' = epoch + 1)
       /\ plotted'.op = "step" => steps_made' = steps_made + 1
       /\ plotted'.op # "step" => steps_made' = steps_made
       /\ plotted'.op = "plot" =>
              /\ Len(plotted'.updates) > 0
              /\ \A i \in 1..Len(plotted'.updates) : plotted'.updates[i].x = epoch
              /\ vis' \ vis \subseteq {p \in vis' : p.x = epoch}]_vars

\* a plot in the third epoch, after plots in the first
C17_Witness ==
    /\ plotted.op = "plot"
    /\ steps_made = 2
    /\ epoch = 3
    /\ \E p \in vis : p.x = 1
    /\ \A i \in 1..Len(plotted.updates) : plotted.updates[i].x = 3
    /\ Len(plotted.updates) > 3

=============================================================================
